---- MODULE Spec2Model ----
(***************************************************************************)
(* Incremental search engine of jove.py (class ISearchInfo and the         *)
(* commands and listeners that drive it).                                  *)
(*                                                                         *)
(* Text is a sequence of one-character strings.  Buffer positions are      *)
(* 0-based as in the host; a region is a record [a, b].  The host (view,   *)
(* input panel, selection) is modelled only as far as the engine calls it: *)
(* the selection is a set of regions, the input panel is open or closed    *)
(* and holds a text, and closing it runs on_done or on_cancel, whichever   *)
(* the host picks.                                                         *)
(***************************************************************************)
EXTENDS Integers, Sequences, FiniteSets, TLC

VARIABLES
    sel,            \* view.sel(): the buffer's selection, a set of regions
    mark,           \* history: the position the session in `info` gave mark_ring.set (-1: none)
    find_hl,        \* regions stored under the key "find"
    selected_hl,    \* regions stored under the key "selected"
    last_search,    \* ISearchInfo.last_search (<<>>: None)
    isearch_info,   \* ViewState.isearch_info is not None
    info,           \* the ISearchInfo object most recently constructed
    status,         \* the status text of the view, as the pieces update() joins
    finished,       \* history: finish() has run on the session in `info`
    lastEvent,      \* history: the handler the last step executed
    calls,          \* history: (search, forward, wrapped) before each on_change/next call
    pushes,         \* history: the same, kept only for the calls that pushed a node
    popped,         \* history: what the last pop() took off calls / pushes
    armed,          \* history: the direction of the step just made, if it armed a wrap
    fc              \* a call of find_closest: its arguments and its result

vars == <<sel, mark, find_hl, selected_hl, last_search, isearch_info, info,
          status, finished, lastEvent, calls, pushes, popped, armed, fc>>

hist == <<calls, pushes, popped, armed>>

(***************************************************************************)
(* Bounds and inputs                                                       *)
(***************************************************************************)
MaxDepth == 3       \* nodes on the history stack, root included
MaxCalls == 2       \* window of remembered on_change/next calls
MaxPos == 4         \* positions of the region lists given to find_closest
MaxRegions == 3     \* length of the region lists given to find_closest

Buffer == <<"a", "A", "b", ".", "a">>

Queries == { << >>, <<"a">>, <<"a", "b">>, <<"b", "b">> }

Points == { 0, 2, Len(Buffer) }

Directions == {"forward", "backward", "none"}

Callbacks == {"on_done", "on_cancel"}

(***************************************************************************)
(* Regions and the host's literal matcher                                  *)
(***************************************************************************)
Region(a, b) == [a |-> a, b |-> b]

begin(r) == IF r.a <= r.b THEN r.a ELSE r.b

end(r) == IF r.a <= r.b THEN r.b ELSE r.a

Range(s) == { s[i] : i \in 1 .. Len(s) }

Front(s) == SubSeq(s, 1, Len(s) - 1)

Last(s) == s[Len(s)]

IsUpper(c) == c \in {"A", "B"}

Lower(c) == IF c = "A" THEN "a" ELSE IF c = "B" THEN "b" ELSE c

\* re.search(r'[A-Z]', val)
HasUpper(val) == \E k \in 1 .. Len(val) : IsUpper(val[k])

MatchAt(val, ignorecase, i) ==
    \A k \in 1 .. Len(val) :
        IF ignorecase THEN Lower(Buffer[i + k]) = Lower(val[k])
                      ELSE Buffer[i + k] = val[k]

RECURSIVE FindFrom(_, _, _)
FindFrom(val, ignorecase, i) ==
    IF i + Len(val) > Len(Buffer) THEN << >>
    ELSE IF MatchAt(val, ignorecase, i)
         THEN << Region(i, i + Len(val)) >> \o FindFrom(val, ignorecase, i + Len(val))
         ELSE FindFrom(val, ignorecase, i + 1)

\* view.find_all(val, flags) with the LITERAL flag
find_all(val, ignorecase) == FindFrom(val, ignorecase, 0)

(***************************************************************************)
(* The host's pattern matcher, for the patterns that arise here: a         *)
(* backslash makes the character after it literal, an unescaped "." stands *)
(* for any character, every other character stands for itself.  A pattern  *)
(* is read into one unit per buffer character it matches; a pattern that   *)
(* ends in a lone backslash does not compile and matches nothing.          *)
(***************************************************************************)
Backslash == "\\"

RECURSIVE Units(_)
Units(val) ==
    IF val = << >> THEN << >>
    ELSE IF val[1] = Backslash
         THEN IF Len(val) = 1 THEN << [any |-> FALSE, ch |-> Backslash, bad |-> TRUE] >>
              ELSE << [any |-> FALSE, ch |-> val[2], bad |-> FALSE] >>
                      \o Units(SubSeq(val, 3, Len(val)))
         ELSE << [any |-> val[1] = ".", ch |-> val[1], bad |-> FALSE] >> \o Units(Tail(val))

UnitsAt(units, ignorecase, i) ==
    \A k \in 1 .. Len(units) :
        \/ units[k].any
        \/ IF ignorecase THEN Lower(Buffer[i + k]) = Lower(units[k].ch)
                          ELSE Buffer[i + k] = units[k].ch

RECURSIVE FindUnitsFrom(_, _, _)
FindUnitsFrom(units, ignorecase, i) ==
    IF i + Len(units) > Len(Buffer) THEN << >>
    ELSE IF UnitsAt(units, ignorecase, i)
         THEN << Region(i, i + Len(units)) >> \o FindUnitsFrom(units, ignorecase, i + Len(units))
         ELSE FindUnitsFrom(units, ignorecase, i + 1)

\* view.find_all(val, flags) without the LITERAL flag
find_all_regex(val, ignorecase) ==
    IF \E k \in 1 .. Len(Units(val)) : Units(val)[k].bad THEN << >>
    ELSE FindUnitsFrom(Units(val), ignorecase, 0)

\* view.find_all(val, flags)
view_find_all(val, flags) ==
    IF flags.literal THEN find_all(val, flags.ignorecase)
    ELSE find_all_regex(val, flags.ignorecase)

(***************************************************************************)
(* ISearchInfo.StackItem                                                   *)
(***************************************************************************)
StackItem_not_selecting(search, regions, selected, current_index, forward, wrapped) ==
    [ search        |-> search,
      regions       |-> regions,
      selected      |-> selected,
      current_index |-> current_index,
      forward       |-> forward,
      try_wrapped   |-> FALSE,
      wrapped       |-> wrapped ]

StackItem(search, regions, selected, current_index, forward, wrapped) ==
    [ search        |-> search,
      regions       |-> regions,
      selected      |-> IF current_index >= 0 /\ regions # << >>
                        THEN Append(selected, regions[current_index + 1])
                        ELSE selected,
      current_index |-> current_index,
      forward       |-> forward,
      try_wrapped   |-> FALSE,
      wrapped       |-> wrapped ]

get_point_swapped(item) ==
    LET r == item.regions[item.current_index + 1]
    IN  IF item.forward THEN end(r) ELSE begin(r)

\* only called with current_index >= 0; the None result is the caller's ELSE
get_point(item) ==
    LET r == item.regions[item.current_index + 1]
    IN  IF item.forward THEN begin(r) ELSE end(r)

\* result: pushed = a new item was returned, self = the item after the call
\* (try_wrapped is written in place), new = the returned item
\* the in-place writes self.try_wrapped = True / False
set_try_wrapped_and_wrapped(self, value) ==
    [self EXCEPT !.try_wrapped = value, !.wrapped = ~value]

set_try_wrapped(self, value) == [self EXCEPT !.try_wrapped = value]

kept_all(selected, keep) == selected

\* selected = copy(self.selected); if not keep and len(selected) > 0: del(selected[-1])
kept(selected, keep) ==
    IF ~keep /\ Len(selected) > 0 THEN Front(selected) ELSE selected

wrap_always(self) == TRUE

\* the test `self.try_wrapped or not self.regions` that confirms a wrap
wrap_confirmed(self) == self.try_wrapped \/ self.regions = << >>

step_stuck_backward(self, forward, keep) ==
    LET index   == self.current_index
        matches == Len(self.regions)
        drop    == kept(self.selected, keep)
    IN  IF self.regions # << >> /\
           (index < 0 \/ (index = 0 /\ ~forward) \/ (index = matches - 1 /\ forward))
        THEN IF wrap_confirmed(self)
             THEN [ pushed |-> TRUE,
                    self   |-> set_try_wrapped(self, FALSE),
                    new    |-> StackItem(self.search, self.regions, drop,
                                         IF forward THEN 0 ELSE matches - 1,
                                         forward, TRUE) ]
             ELSE [ pushed |-> FALSE,
                    self   |-> set_try_wrapped(self, TRUE),
                    new    |-> self ]
        ELSE IF (forward /\ index < matches - 1) \/ (~forward /\ index > 0)
        THEN [ pushed |-> TRUE,
               self   |-> self,
               new    |-> StackItem(self.search, self.regions, drop,
                                    IF forward THEN index + 1 ELSE index,
                                    forward, self.wrapped) ]
        ELSE [ pushed |-> FALSE, self |-> self, new |-> self ]

step(self, forward, keep) ==
    LET index   == self.current_index
        matches == Len(self.regions)
        drop    == kept(self.selected, keep)
    IN  IF self.regions # << >> /\
           (index < 0 \/ (index = 0 /\ ~forward) \/ (index = matches - 1 /\ forward))
        THEN IF wrap_confirmed(self)
             THEN [ pushed |-> TRUE,
                    self   |-> set_try_wrapped(self, FALSE),
                    new    |-> StackItem(self.search, self.regions, drop,
                                         IF forward THEN 0 ELSE matches - 1,
                                         forward, TRUE) ]
             ELSE [ pushed |-> FALSE,
                    self   |-> set_try_wrapped(self, TRUE),
                    new    |-> self ]
        ELSE IF (forward /\ index < matches - 1) \/ (~forward /\ index > 0)
        THEN [ pushed |-> TRUE,
               self   |-> self,
               new    |-> StackItem(self.search, self.regions, drop,
                                    IF forward THEN index + 1 ELSE index - 1,
                                    forward, self.wrapped) ]
        ELSE [ pushed |-> FALSE, self |-> self, new |-> self ]

(***************************************************************************)
(* ISearchInfo                                                             *)
(*                                                                         *)
(* The handlers are operators from the program state w (a record of the    *)
(* variables) to the program state after the call.  info.stack is the      *)
(* chain current, current.prev, ... with the root first: current is the    *)
(* last element, and current.prev is None when the stack has one element.  *)
(***************************************************************************)
current(w) == Last(w.info.stack)

\* for index,r in enumerate(regions): if r.end() >= pos: return index
RECURSIVE scan_forward(_, _, _)
scan_forward(regions, pos, index) ==
    IF index >= Len(regions) THEN -1
    ELSE IF end(regions[index + 1]) >= pos THEN index
    ELSE scan_forward(regions, pos, index + 1)

\* for index,r in enumerate(regions): if r.begin() > pos: return index - 1
RECURSIVE scan_backward(_, _, _)
scan_backward(regions, pos, index) ==
    IF index >= Len(regions) THEN Len(regions) - 1
    ELSE IF begin(regions[index + 1]) > pos THEN index - 1
    ELSE scan_backward(regions, pos, index + 1)

find_closest_strict(regions, pos, forward) ==
    IF Len(regions) = 0 THEN -1
    ELSE IF forward THEN scan_forward(regions, pos + 1, 0)
    ELSE scan_backward(regions, pos - 1, 0)

find_closest(regions, pos, forward) ==
    IF Len(regions) = 0 THEN -1
    ELSE IF forward THEN scan_forward(regions, pos, 0)
    ELSE scan_backward(regions, pos, 0)

\* the position in the stack of the item not_in_error returns (0: None)
RECURSIVE not_in_error_from(_, _)
not_in_error_from(stack, k) ==
    IF k >= 1 /\ stack[k].selected = << >> /\ stack[k].search # << >>
    THEN not_in_error_from(stack, k - 1)
    ELSE k

not_in_error_current(w) == Len(w.info.stack)

not_in_error(w) == not_in_error_from(w.info.stack, Len(w.info.stack))

update_find_only(w) ==
    LET k == not_in_error(w)
    IN  IF k = 0 THEN w
        ELSE [w EXCEPT !.find_hl = w.info.stack[k].regions]

failing_without_matches(w, k) == current(w).regions = << >>

\* si != self.current, for the position k of si in the stack
failing(w, k) == k # Len(w.info.stack)

\* the status text update() composes, as the sequence of the pieces it joins
status_text(w, k) ==
    LET si == w.info.stack[k]
        s1 == IF failing(w, k) THEN << "Failing " >> ELSE << >>
        s2 == s1 \o (IF current(w).wrapped THEN << "Wrapped " >> ELSE << >>)
        s3 == s2 \o << "I-Search ", IF current(w).forward THEN "Forward" ELSE "Reverse" >>
    IN  IF failing(w, k)
        THEN IF Len(current(w).regions) > 0
             THEN s3 \o << " ", ToString(Len(current(w).regions)), " matches ",
                           IF w.info.forward THEN "above" ELSE "below" >>
             ELSE s3
        ELSE s3 \o << " ", ToString(Len(si.regions)), " matches, ",
                      ToString(Len(si.selected)), " cursors" >>

update(w) ==
    LET k == not_in_error(w)
    IN  IF k = 0 THEN w
        ELSE [w EXCEPT !.find_hl = w.info.stack[k].regions,
                       !.selected_hl = w.info.stack[k].selected,
                       !.status = status_text(w, k)]

push_aliasing(w, item) ==
    [w EXCEPT !.info.stack =
        Append([@ EXCEPT ![Len(@)].selected = item.selected], item)]

push(w, item) == [w EXCEPT !.info.stack = Append(@, item)]

find_flags_ignorecase(w, val) == [ literal |-> ~w.info.regex, ignorecase |-> TRUE ]

\* flags = 0 if self.regex else LITERAL; IGNORECASE if val has no [A-Z]
find_flags(w, val) == [ literal |-> ~w.info.regex, ignorecase |-> ~HasUpper(val) ]

find_carrying(w, val) ==
    IF Len(val) > 0
    THEN LET regions == view_find_all(val, find_flags(w, val))
             point   == IF current(w).current_index >= 0
                        THEN get_point(current(w))
                        ELSE w.info.point
             index   == find_closest(regions, point, w.info.forward)
         IN  update(push(w, StackItem(val, regions, current(w).selected, index,
                                      w.info.forward, current(w).wrapped)))
    ELSE update(w)

find(w, val) ==
    IF Len(val) > 0
    THEN LET regions == view_find_all(val, find_flags(w, val))
             point   == IF current(w).current_index >= 0
                        THEN get_point(current(w))
                        ELSE w.info.point
             index   == find_closest(regions, point, w.info.forward)
         IN  update(push(w, StackItem(val, regions, << >>, index,
                                      w.info.forward, current(w).wrapped)))
    ELSE update(w)

on_change(w, val) ==
    IF w.info.in_changes > 0
    THEN [w EXCEPT !.info.in_changes = @ - 1]
    ELSE find(w, val)

\* select_all, left_delete, insert on the input view.  As the comment in
\* on_change has it, replacing the text "causes this on_change method to be
\* called": the host reports the replacement by one on_change call, and
\* reports nothing when the line was empty and stays empty
set_text(w, text, is_pop) ==
    LET w1 == [w EXCEPT !.info.in_changes = IF is_pop THEN @ + 1 ELSE @,
                        !.info.input_text = text]
    IN  IF w.info.input_text # << >> \/ text # << >>
        THEN on_change(w1, text)
        ELSE w1

finish_always_writes(w, abort) ==
    LET w1  == [w EXCEPT !.last_search = current(w).search,
                         !.finished = TRUE]
        k   == not_in_error(w1)
        point_set == ~abort /\ k # 0 /\ w1.info.stack[k].selected # << >>
        w2  == IF point_set
               THEN [w1 EXCEPT !.sel = Range(w1.info.stack[k].selected),
                               !.mark = w1.info.point]
               ELSE [w1 EXCEPT !.sel = { Region(w1.info.point, w1.info.point) }]
    IN  [w2 EXCEPT !.find_hl = << >>, !.selected_hl = << >>, !.status = << >>]

finish(w, abort) ==
    LET w1  == [w EXCEPT !.last_search = IF current(w).search # << >>
                                         THEN current(w).search ELSE @,
                         !.finished = TRUE]
        k   == not_in_error(w1)
        point_set == ~abort /\ k # 0 /\ w1.info.stack[k].selected # << >>
        w2  == IF point_set
               THEN [w1 EXCEPT !.sel = Range(w1.info.stack[k].selected),
                               !.mark = w1.info.point]
               ELSE [w1 EXCEPT !.sel = { Region(w1.info.point, w1.info.point) }]
    IN  [w2 EXCEPT !.find_hl = << >>, !.selected_hl = << >>, !.status = << >>]

on_done(w) ==
    LET w1 == [w EXCEPT !.isearch_info = FALSE]
    IN  IF w1.info.is_active THEN finish(w1, FALSE) ELSE w1

on_cancel(w) ==
    LET w1 == [w EXCEPT !.isearch_info = FALSE]
    IN  IF w1.info.is_active THEN finish(w1, TRUE) ELSE w1

\* window.run_command("hide_panel"): the host closes an open input panel and
\* notifies its owner through one of the two callbacks given to it
hide_panel(w, cb) ==
    IF w.info.panel_open
    THEN LET w1 == [w EXCEPT !.info.panel_open = FALSE]
         IN  IF cb = "on_done" THEN on_done(w1) ELSE on_cancel(w1)
    ELSE w

pop_replaying(w) ==
    IF Len(w.info.stack) > 1
    THEN LET w1 == [w EXCEPT !.info.stack = Front(@)]
             w2 == set_text(w1, current(w1).search, FALSE)
             w3 == [w2 EXCEPT !.info.forward = current(w2).forward]
         IN  update(w3)
    ELSE w

pop_at_root_replays(w) ==
    IF Len(w.info.stack) > 1
    THEN LET w1 == [w EXCEPT !.info.stack = Front(@)]
             w2 == set_text(w1, current(w1).search, TRUE)
             w3 == [w2 EXCEPT !.info.forward = current(w2).forward]
         IN  update(w3)
    ELSE set_text(w, current(w).search, TRUE)

pop(w) ==
    IF Len(w.info.stack) > 1
    THEN LET w1 == [w EXCEPT !.info.stack = Front(@)]
             w2 == set_text(w1, current(w1).search, TRUE)
             w3 == [w2 EXCEPT !.info.forward = current(w2).forward]
         IN  update(w3)
    ELSE w

deactivate_aborts(w) == finish([w EXCEPT !.info.is_active = FALSE], TRUE)

deactivate(w) == finish([w EXCEPT !.info.is_active = FALSE], FALSE)

done(w, cb) == hide_panel(w, cb)

next_arming(w, keep, forward) ==
    IF Len(w.info.stack) = 1
    THEN IF w.last_search # << >>
         THEN set_text(w, w.last_search, FALSE)
         ELSE w
    ELSE LET fwd == IF forward = "none" THEN current(w).forward
                    ELSE forward = "forward"
             r   == step(current(w), fwd, keep)
             w1  == [w EXCEPT !.info.stack[Len(w.info.stack)] = r.self]
         IN  IF r.pushed THEN update(push(w1, r.new)) ELSE [w EXCEPT !.info.stack[Len(w.info.stack)] =
                                              set_try_wrapped(r.self, TRUE)]

next(w, keep, forward) ==
    IF Len(w.info.stack) = 1
    THEN IF w.last_search # << >>
         THEN set_text(w, w.last_search, FALSE)
         ELSE w
    ELSE LET fwd == IF forward = "none" THEN current(w).forward
                    ELSE forward = "forward"
             r   == step(current(w), fwd, keep)
             w1  == [w EXCEPT !.info.stack[Len(w.info.stack)] = r.self]
         IN  IF r.pushed THEN update(push(w1, r.new)) ELSE w1

\* the value of the setting jove_word_separators
jove_word_separators == { "." }

\* CmdHelper.is_word_char
is_word_char(pos, forward, separators) ==
    IF ~forward /\ pos = 0 THEN FALSE
    ELSE LET char == Buffer[(IF forward THEN pos ELSE pos - 1) + 1]
         IN  ~(char \in {" ", "\t", "\r", "\n"} \/ char \in separators)

append_one_plain(w, ch) == << ch >>

\* the local function append_one of append_from_cursor
append_one(w, ch) ==
    IF w.info.regex /\ ch \in {"{", "}", "(", ")", "[", "]", ".", "*", "+"}
    THEN << Backslash, ch >>
    ELSE << ch >>

\* the loop `while point < limit and helper.is_word_char(point, True, separators)`
RECURSIVE append_word(_, _, _, _)
append_word(w, search, point, case_sensitive) ==
    IF point < Len(Buffer) /\ is_word_char(point, TRUE, jove_word_separators)
    THEN LET ch   == IF ~case_sensitive THEN Lower(Buffer[point + 1])
                     ELSE Buffer[point + 1]
             more == search \o append_one(w, ch)
         IN  append_word(on_change(w, more), more, point + 1, case_sensitive)
    ELSE w

append_from_cursor(w) ==
    LET si    == current(w)
        point == IF si.selected # << >> THEN end(Last(si.selected)) ELSE w.info.point
    IN  IF Len(si.search) > 0 /\ si.selected = << >> THEN w
        ELSE IF point >= Len(Buffer) THEN w
        ELSE LET search == si.search \o append_one(w, Buffer[point + 1])
                 w1     == on_change(w, search)
                 w2     == append_word(w1, search, point + 1, HasUpper(si.search))
             IN  set_text(w2, current(w2).search, TRUE)

cancel_commits(w, cb) == finish(hide_panel(w, cb), FALSE)

cancel(w, cb) == finish(hide_panel(w, cb), TRUE)

back_up_none(stack) == stack

\* the stack after the loop `while self.current.prev and not self.current.prev.regions`
RECURSIVE back_up(_)
back_up(stack) ==
    IF Len(stack) > 1 /\ stack[Len(stack) - 1].regions = << >>
    THEN back_up(Front(stack))
    ELSE stack

quit_commits(w, cb) ==
    IF current(w).regions # << >>
    THEN finish(hide_panel(w, cb), FALSE)
    ELSE LET w1 == [w EXCEPT !.info.stack = back_up(@)]
         IN  IF Len(w1.info.stack) = 1 THEN cancel(w1, cb) ELSE pop(w1)

quit(w, cb) ==
    IF current(w).regions # << >>
    THEN cancel(w, cb)
    ELSE LET w1 == [w EXCEPT !.info.stack = back_up(@)]
         IN  IF Len(w1.info.stack) = 1 THEN cancel(w1, cb) ELSE pop(w1)

\* ISearchInfo(view, forward, regex) followed by open(); the histories of the
\* session before (finished, mark) start afresh
ISearchInfo(w, forward, regex) ==
    LET first == CHOOSE r \in w.sel : \A q \in w.sel : begin(r) <= begin(q)
        obj   == [ stack      |-> << StackItem(<< >>, << >>, << >>, -1, forward, FALSE) >>,
                   point      |-> first.b,
                   in_changes |-> 0,
                   forward    |-> forward,
                   is_active  |-> TRUE,
                   regex      |-> regex,
                   input_text |-> << >>,
                   panel_open |-> TRUE ]
    IN  update([w EXCEPT !.info = obj, !.isearch_info = TRUE,
                         !.finished = FALSE, !.mark = -1])

(***************************************************************************)
(* The state machine                                                       *)
(***************************************************************************)
W == [ sel |-> sel, mark |-> mark, find_hl |-> find_hl, selected_hl |-> selected_hl,
       last_search |-> last_search, isearch_info |-> isearch_info, info |-> info,
       status |-> status, finished |-> finished ]

Becomes(w) ==
    /\ sel' = w.sel
    /\ mark' = w.mark
    /\ find_hl' = w.find_hl
    /\ selected_hl' = w.selected_hl
    /\ last_search' = w.last_search
    /\ isearch_info' = w.isearch_info
    /\ info' = w.info
    /\ status' = w.status
    /\ finished' = w.finished

NoInfo == [ stack |-> << >>, point |-> 0, in_changes |-> 0, forward |-> TRUE,
            is_active |-> FALSE, regex |-> FALSE, input_text |-> << >>,
            panel_open |-> FALSE ]

NoItem == << >>

NoPop == [ call |-> NoItem, push |-> NoItem ]

NoCall == [ regions |-> << >>, pos |-> 0, forward |-> TRUE, index |-> -1, called |-> FALSE ]

\* the view before any search: one cursor somewhere in the buffer
Idle(p) ==
    [ sel |-> { Region(p, p) }, mark |-> -1, find_hl |-> << >>, selected_hl |-> << >>,
      last_search |-> << >>, isearch_info |-> FALSE, info |-> NoInfo, status |-> << >>,
      finished |-> FALSE ]

Init ==
    /\ \E p \in Points :
          /\ sel = Idle(p).sel
          /\ mark = Idle(p).mark
          /\ find_hl = Idle(p).find_hl
          /\ selected_hl = Idle(p).selected_hl
          /\ last_search = Idle(p).last_search
          /\ isearch_info = Idle(p).isearch_info
          /\ info = Idle(p).info
          /\ status = Idle(p).status
          /\ finished = Idle(p).finished
    /\ lastEvent = "none"
    /\ calls = << >>
    /\ pushes = << >>
    /\ popped = NoPop
    /\ armed = "none"
    /\ fc = NoCall

\* JoveIncSearchCommand.run_cmd with no session in the slot
StartAt(forward, regex) ==
    /\ ~isearch_info
    /\ Becomes(ISearchInfo(W, forward, regex))
    /\ lastEvent' = "start"

\* the user edits the input line: the host calls on_change with the new text
OnChangeAt(val) ==
    /\ info.panel_open
    /\ val # info.input_text
    /\ Len(info.stack) < MaxDepth
    /\ Becomes(on_change([W EXCEPT !.info.input_text = val], val))
    /\ lastEvent' = "on_change"

\* JoveIncSearchCommand.run_cmd, cmd == "next"
NextCmdAt(keep, forward) ==
    /\ isearch_info
    /\ Len(info.stack) < MaxDepth
    /\ Becomes(next(W, keep, forward))
    /\ lastEvent' = "next"

\* JoveIncSearchCommand.run_cmd, cmd == "pop"
PopCmd ==
    /\ isearch_info
    /\ Becomes(pop(W))
    /\ lastEvent' = "pop"

\* JoveQuitCommand.run_cmd with a session in the slot
QuitAt(cb) ==
    /\ isearch_info
    /\ Becomes(quit(W, cb))
    /\ lastEvent' = "quit"

\* the sessions of Spec are literal searches; SpecGrowth has both kinds
Start == \E forward \in BOOLEAN : StartAt(forward, FALSE) /\ UNCHANGED <<hist, fc>>

OnChange == \E val \in Queries : OnChangeAt(val) /\ UNCHANGED <<hist, fc>>

\* the user confirms the input line: the host closes it and calls on_done
OnDone ==
    /\ info.panel_open
    /\ Becomes(on_done([W EXCEPT !.info.panel_open = FALSE]))
    /\ lastEvent' = "on_done"
    /\ UNCHANGED <<hist, fc>>

\* the host dismisses the input line: it closes it and calls on_cancel
OnCancel ==
    /\ info.panel_open
    /\ Becomes(on_cancel([W EXCEPT !.info.panel_open = FALSE]))
    /\ lastEvent' = "on_cancel"
    /\ UNCHANGED <<hist, fc>>

\* ViewWatcher.on_deactivated for the input view
Deactivate ==
    /\ isearch_info
    /\ Becomes(deactivate(W))
    /\ lastEvent' = "deactivate"
    /\ UNCHANGED <<hist, fc>>

\* ViewWatcher.on_activated_async, drag_select and JoveIncSearchEscape
Done ==
    \E cb \in Callbacks :
        /\ isearch_info
        /\ Becomes(done(W, cb))
        /\ lastEvent' = "done"
        /\ UNCHANGED <<hist, fc>>

NextCmd ==
    \E keep \in BOOLEAN, forward \in Directions :
        NextCmdAt(keep, forward) /\ UNCHANGED <<hist, fc>>

Pop == PopCmd /\ UNCHANGED <<hist, fc>>

Quit == \E cb \in Callbacks : QuitAt(cb) /\ UNCHANGED <<hist, fc>>

\* JoveIncSearchCommand.run_cmd, cmd == "append_from_cursor"
AppendCmd ==
    /\ isearch_info
    /\ Len(info.stack) < MaxDepth
    /\ Becomes(append_from_cursor(W))
    /\ lastEvent' = "append_from_cursor"

Next == Start \/ OnChange \/ OnDone \/ OnCancel \/ Deactivate \/ Done \/ NextCmd \/ Pop \/ Quit

Spec == Init /\ [][Next]_vars

(***************************************************************************)
(* One session with its history of calls: query changes, steps and pops    *)
(***************************************************************************)
snapshot(item) == << item.search, item.forward, item.wrapped >>

Remember(h, x) == IF Len(h) < MaxCalls THEN Append(h, x) ELSE Append(Tail(h), x)

\* a call of on_change or next: what was current before it, and whether it pushed
Called ==
    /\ calls' = Remember(calls, snapshot(current(W)))
    /\ pushes' = IF Len(info'.stack) > Len(info.stack)
                 THEN Remember(pushes, snapshot(current(W)))
                 ELSE pushes
    /\ popped' = NoPop

\* a session right after JoveIncSearchCommand constructed and opened it
InitHistory ==
    /\ \E p \in Points, forward \in BOOLEAN, last \in { << >>, <<"a">> } :
          LET w == ISearchInfo([Idle(p) EXCEPT !.last_search = last], forward, FALSE)
          IN  /\ sel = w.sel
              /\ mark = w.mark
              /\ find_hl = w.find_hl
              /\ selected_hl = w.selected_hl
              /\ last_search = w.last_search
              /\ isearch_info = w.isearch_info
              /\ info = w.info
              /\ status = w.status
              /\ finished = w.finished
    /\ lastEvent = "start"
    /\ calls = << >>
    /\ pushes = << >>
    /\ popped = NoPop
    /\ armed = "none"
    /\ fc = NoCall

\* a swallowed echo or an empty query leaves the states alone: only a query
\* change that pushed counts as coming between two steps
OnChangeCalled ==
    \E val \in Queries :
        /\ OnChangeAt(val)
        /\ Called
        /\ armed' = IF info'.stack = info.stack THEN armed ELSE "none"
        /\ UNCHANGED fc

\* the direction the step was made in, when all it did was set try_wrapped
Arming(forward) ==
    IF /\ Len(info.stack) > 1
       /\ Len(info'.stack) = Len(info.stack)
       /\ ~current(W).try_wrapped
       /\ Last(info'.stack).try_wrapped
    THEN IF forward = "forward" \/ (forward = "none" /\ current(W).forward)
         THEN "forward" ELSE "backward"
    ELSE "none"

NextCalled ==
    \E keep \in BOOLEAN, forward \in Directions :
        NextCmdAt(keep, forward) /\ Called /\ armed' = Arming(forward) /\ UNCHANGED fc

PopCalled ==
    /\ PopCmd
    /\ IF Len(info.stack) > 1
       THEN /\ calls' = IF calls = << >> THEN calls ELSE Front(calls)
            /\ pushes' = IF pushes = << >> THEN pushes ELSE Front(pushes)
            /\ popped' = [ call |-> IF calls = << >> THEN NoItem ELSE << Last(calls) >>,
                           push |-> IF pushes = << >> THEN NoItem ELSE << Last(pushes) >> ]
       ELSE UNCHANGED <<calls, pushes>> /\ popped' = NoPop
    /\ armed' = "none"
    /\ UNCHANGED fc

NextHistory == OnChangeCalled \/ NextCalled \/ PopCalled

SpecHistory == InitHistory /\ [][NextHistory]_vars

(***************************************************************************)
(* The command jove_inc_search as a whole, with the slot set or not        *)
(***************************************************************************)
\* the cmd values given here; growth has a specification of its own below
Commands == {"none", "next", "pop"}

run_cmd_restarts(w, cmd, keep, forward, regex) ==
    IF ~w.isearch_info \/ cmd = "none"
    THEN ISearchInfo(w, forward = "forward", regex)
    ELSE IF cmd = "next" THEN next(w, keep, forward)
    ELSE IF cmd = "pop" THEN pop(w)
    ELSE IF cmd = "append_from_cursor" THEN append_from_cursor(w)
    ELSE w

\* JoveIncSearchCommand.run_cmd(jove, cmd, **kwargs); regex is kwargs' regex,
\* negated when a prefix argument was supplied
run_cmd(w, cmd, keep, forward, regex) ==
    IF ~w.isearch_info
    THEN ISearchInfo(w, forward = "forward", regex)
    ELSE IF cmd = "next" THEN next(w, keep, forward)
    ELSE IF cmd = "pop" THEN pop(w)
    ELSE IF cmd = "append_from_cursor" THEN append_from_cursor(w)
    ELSE w

\* the command is never run without a direction when the slot is empty
\* (kwargs['forward'] would not be there); lastEvent is "start" when a
\* session was asked for or made, and the cmd otherwise
RunCmd ==
    \E cmd \in Commands, keep \in BOOLEAN, forward \in Directions, regex \in BOOLEAN :
        /\ (~isearch_info \/ cmd = "none") => forward # "none"
        /\ isearch_info => Len(info.stack) < MaxDepth \/ cmd \in {"none", "pop"}
        /\ Becomes(run_cmd(W, cmd, keep, forward, regex))
        /\ lastEvent' = IF ~isearch_info \/ cmd = "none" THEN "start" ELSE cmd
        /\ UNCHANGED <<hist, fc>>

\* what the user types in these sessions
SessionTyped == { << >>, <<"a">> }

OnChangeSession == \E val \in SessionTyped : OnChangeAt(val) /\ UNCHANGED <<hist, fc>>

NextSession == RunCmd \/ OnChangeSession \/ OnDone \/ OnCancel \/ Deactivate \/ Done \/ Quit

SpecSession == Init /\ [][NextSession]_vars

(***************************************************************************)
(* One session, literal or regex, with growth of the query from the buffer *)
(***************************************************************************)
Typed == Queries \cup { <<"A">>, <<".">> }

InitGrowth ==
    /\ \E p \in Points, forward \in BOOLEAN, regex \in BOOLEAN :
          LET w == ISearchInfo(Idle(p), forward, regex)
          IN  /\ sel = w.sel
              /\ mark = w.mark
              /\ find_hl = w.find_hl
              /\ selected_hl = w.selected_hl
              /\ last_search = w.last_search
              /\ isearch_info = w.isearch_info
              /\ info = w.info
              /\ status = w.status
              /\ finished = w.finished
    /\ lastEvent = "start"
    /\ calls = << >>
    /\ pushes = << >>
    /\ popped = NoPop
    /\ armed = "none"
    /\ fc = NoCall

OnChangeTyped == \E val \in Typed : OnChangeAt(val) /\ UNCHANGED <<hist, fc>>

AppendFromCursor == AppendCmd /\ UNCHANGED <<hist, fc>>

NextGrowth == OnChangeTyped \/ NextCmd \/ AppendFromCursor \/ Pop \/ Quit

SpecGrowth == InitGrowth /\ [][NextGrowth]_vars

(***************************************************************************)
(* find_closest on its own: every sorted list of non-overlapping regions   *)
(***************************************************************************)
Regions == { Region(a, b) : a \in 0 .. MaxPos, b \in 0 .. MaxPos }

SortedLists ==
    { s \in UNION { [1 .. n -> { r \in Regions : r.a <= r.b }] : n \in 0 .. MaxRegions } :
        \A i \in 1 .. Len(s) - 1 : end(s[i]) <= begin(s[i + 1]) /\ s[i] # s[i + 1] }

InitClosest ==
    /\ sel = Idle(0).sel
    /\ mark = Idle(0).mark
    /\ find_hl = Idle(0).find_hl
    /\ selected_hl = Idle(0).selected_hl
    /\ last_search = Idle(0).last_search
    /\ isearch_info = Idle(0).isearch_info
    /\ info = Idle(0).info
    /\ status = Idle(0).status
    /\ finished = Idle(0).finished
    /\ lastEvent = "none"
    /\ calls = << >>
    /\ pushes = << >>
    /\ popped = NoPop
    /\ armed = "none"
    /\ \E regions \in SortedLists, pos \in 0 .. MaxPos, forward \in BOOLEAN :
          fc = [ regions |-> regions, pos |-> pos, forward |-> forward,
                 index |-> -1, called |-> FALSE ]

CallClosest ==
    /\ ~fc.called
    /\ fc' = [fc EXCEPT !.index = find_closest(fc.regions, fc.pos, fc.forward),
                        !.called = TRUE]
    /\ UNCHANGED <<sel, mark, find_hl, selected_hl, last_search, isearch_info, info,
                   status, finished, lastEvent, calls, pushes, popped, armed>>

NextClosest == CallClosest

SpecClosest == InitClosest /\ [][NextClosest]_vars

(***************************************************************************)
(* Properties                                                              *)
(***************************************************************************)
Maximum(S) == CHOOSE x \in S : \A y \in S : y <= x

\* the collapsed selection at the point recorded when the session started
anchor == { Region(info.point, info.point) }

\* positions in the stack of the states that have a selected span / matches
WithSelected(stack) == { k \in 1 .. Len(stack) : stack[k].selected # << >> }

WithMatches(stack) == { k \in 1 .. Len(stack) : stack[k].regions # << >> }

\* the selection a commit is to leave: the selected spans of the nearest
\* ancestor of current that has any, else the anchor
Committed ==
    IF WithSelected(info.stack) # { }
    THEN Range(info.stack[Maximum(WithSelected(info.stack))].selected)
    ELSE anchor

Top == Last(info.stack)

\* C1: cancel always reverts.  In every reachable state with a session in the
\* slot, whatever callback the host runs while hiding the panel, cancel()
\* leaves the selection at the collapsed anchor; and after a quit that
\* closed the session through cancel() the selection is that anchor.
C1_CancelReverts ==
    /\ isearch_info =>
          \A cb \in Callbacks : cancel(W, cb).sel = anchor
    /\ (lastEvent = "quit" /\ ~isearch_info) => sel = anchor

C1_Witness ==
    /\ lastEvent = "quit"
    /\ ~isearch_info
    /\ Len(Top.selected) >= 2
    /\ sel = anchor

\* C2 as stated: a quit() from a state with matches leaves the selected spans
\* of the displayable state as the selection.
C2_QuitCommits ==
    (lastEvent = "quit" /\ ~isearch_info /\ Top.regions # << >>) => sel = Committed

\* C2 amended: a quit() from a state with matches behaves as cancel: the
\* session ends (slot cleared, panel closed, finished, highlights erased,
\* stack untouched) and the selection is the collapsed anchor.
C2_QuitCancels ==
    [][ (isearch_info /\ Top.regions # << >> /\ lastEvent' = "quit") =>
           /\ ~isearch_info'
           /\ ~info'.panel_open
           /\ finished'
           /\ info'.stack = info.stack
           /\ sel' = anchor
           /\ find_hl' = << >> /\ selected_hl' = << >> ]_vars

C2_Witness ==
    /\ lastEvent = "quit"
    /\ ~isearch_info
    /\ Top.regions # << >>
    /\ Top.selected # << >>
    /\ sel = anchor
    /\ sel # Committed

C4_FinishIdempotent ==
    [][ (finished /\ lastEvent' \in {"on_done", "on_cancel", "deactivate", "done", "quit"}) =>
           /\ sel' = sel
           /\ mark' = mark
           /\ find_hl' = find_hl
           /\ selected_hl' = selected_hl ]_vars

\* C5: commit.  on_done on an active session replaces the selection by the
\* selected spans of the nearest ancestor of current (itself included) that
\* has at least one, and by the collapsed anchor when there is none; this
\* holds in every reachable state of an open, active session and after every
\* on_done the host delivered.
C5_CommitSelection ==
    /\ (info.panel_open /\ info.is_active) =>
          on_done([W EXCEPT !.info.panel_open = FALSE]).sel = Committed
    /\ (lastEvent = "on_done" /\ info.is_active) => sel = Committed

C5_Witness ==
    /\ lastEvent = "on_done"
    /\ info.is_active
    /\ Top.search # << >>
    /\ Top.regions = << >>
    /\ WithSelected(info.stack) # { }
    /\ sel = Range(info.stack[Len(info.stack) - 1].selected)

\* C6: a quit() from a state without matches makes the nearest ancestor with
\* matches current and leaves the session open (slot set, panel open, no
\* finish, selection untouched); when no ancestor has matches it ends the
\* session with the selection at the anchor.
C6_QuitFromFailing ==
    [][ (isearch_info /\ Top.regions = << >> /\ lastEvent' = "quit") =>
           IF WithMatches(info.stack) # { }
           THEN /\ info'.stack = SubSeq(info.stack, 1, Maximum(WithMatches(info.stack)))
                /\ isearch_info'
                /\ info'.panel_open
                /\ finished' = finished
                /\ sel' = sel
           ELSE /\ ~isearch_info'
                /\ ~info'.panel_open
                /\ finished'
                /\ sel' = anchor ]_vars

C6_Witness ==
    /\ lastEvent = "quit"
    /\ isearch_info
    /\ ~finished
    /\ Len(info.stack) = 2
    /\ Top.search = <<"a">>
    /\ Len(Top.regions) = 3

\* C7 as stated: a pop() that undoes the most recent remembered call of
\* on_change/next returns current's query, direction and wrapped flag to
\* what they were before that call.
C7_PopUndoesEveryCall ==
    popped.call # NoItem => snapshot(Top) = popped.call[1]

\* C7 amended: the history is lossless over the calls that pushed a node: a
\* pop() that undoes the most recent remembered pushing call returns
\* current's query, direction and wrapped flag to what they were before that
\* call (calls that push nothing -- an arming or idle step, an empty query,
\* a swallowed change -- are not undone by a pop).
C7_PopUndoesEveryPush ==
    popped.push # NoItem => snapshot(Top) = popped.push[1]

C7_Witness ==
    /\ lastEvent = "pop"
    /\ popped.push # NoItem
    /\ pushes # << >>
    /\ Top.search # << >>
    /\ snapshot(Top) = popped.push[1]

\* the boundary test of step(): matches exist and the index is the sentinel,
\* 0 going backward or the last going forward
AtBoundary(item, forward) ==
    /\ item.regions # << >>
    /\ \/ item.current_index < 0
       \/ item.current_index = 0 /\ ~forward
       \/ item.current_index = Len(item.regions) - 1 /\ forward

Resolve(forward) == IF forward = "none" THEN Top.forward ELSE forward = "forward"

\* C8: two-phase wrap.  A step at the boundary with no wrap pending pushes no
\* node and changes nothing but the pending flag of current; a step at the
\* boundary with the wrap pending pushes a node with index 0 (forward) or
\* m-1 (backward) and wrapped = TRUE over the node it stepped from, whose
\* pending flag it clears.
C8_TwoPhaseWrap ==
    [][ \A keep \in BOOLEAN, forward \in Directions :
          (lastEvent' = "next" /\ isearch_info /\ Len(info.stack) > 1
             /\ AtBoundary(Top, Resolve(forward)) /\ NextCmdAt(keep, forward)) =>
             IF ~Top.try_wrapped
             THEN /\ info' = [info EXCEPT !.stack[Len(info.stack)].try_wrapped = TRUE]
                  /\ find_hl' = find_hl /\ selected_hl' = selected_hl
                  /\ sel' = sel
             ELSE /\ Len(info'.stack) = Len(info.stack) + 1
                  /\ Front(info'.stack) =
                        [info.stack EXCEPT ![Len(info.stack)].try_wrapped = FALSE]
                  /\ Last(info'.stack).wrapped
                  /\ ~Last(info'.stack).try_wrapped
                  /\ Last(info'.stack).current_index =
                        IF Resolve(forward) THEN 0 ELSE Len(Top.regions) - 1
                  /\ Last(info'.stack).regions = Top.regions
                  /\ Last(info'.stack).search = Top.search ]_vars

C8_Witness ==
    /\ lastEvent = "next"
    /\ Len(info.stack) = 3
    /\ Top.wrapped
    /\ Top.current_index = 0
    /\ Top.forward
    /\ info.stack[2].current_index = -1
    /\ ~info.stack[2].try_wrapped
    /\ ~info.stack[2].wrapped

\* C9: keep against replace.  A step that pushes a node with active match B
\* over a state whose selected list is L gives the new node the selected
\* list L followed by B when keep is true, and L without its last element
\* followed by B when keep is false.
C9_KeepOrReplace ==
    [][ \A keep \in BOOLEAN, forward \in Directions :
          (lastEvent' = "next" /\ isearch_info /\ Len(info.stack) > 1
             /\ Len(info'.stack) = Len(info.stack) + 1 /\ NextCmdAt(keep, forward)) =>
             LET new == Last(info'.stack)
                 B   == new.regions[new.current_index + 1]
                 L   == Top.selected
             IN  new.selected =
                    IF keep \/ L = << >> THEN Append(L, B)
                    ELSE Append(SubSeq(L, 1, Len(L) - 1), B) ]_vars

C9_Witness ==
    /\ lastEvent = "next"
    /\ Len(info.stack) = 3
    /\ Len(info.stack[2].selected) = 1
    /\ Len(Top.selected) = 2
    /\ Top.selected[1] = info.stack[2].selected[1]
    /\ Top.selected[2] # Top.selected[1]

\* C10: find_closest on a sorted list of non-overlapping regions returns,
\* forward, the index of the first region whose end >= pos, backward, the
\* index of the last region whose begin <= pos, and -1 when there is none.
C10_ClosestMatch ==
    fc.called =>
        LET n    == Len(fc.regions)
            ahead  == { i \in 0 .. n - 1 : end(fc.regions[i + 1]) >= fc.pos }
            behind == { i \in 0 .. n - 1 : begin(fc.regions[i + 1]) <= fc.pos }
        IN  fc.index =
               IF fc.forward
               THEN IF ahead = { } THEN -1
                    ELSE CHOOSE i \in ahead : \A j \in ahead : i <= j
               ELSE IF behind = { } THEN -1 ELSE Maximum(behind)

C10_Witness ==
    /\ fc.called
    /\ fc.forward
    /\ fc.regions = << Region(0, 2), Region(3, 4) >>
    /\ fc.pos = 3
    /\ fc.index = 1

\* the active match of a node (only for a node whose index is not the sentinel)
Active(item) == item.regions[item.current_index + 1]

\* C11 as stated: a query change that pushes a node gives it the selected
\* list of the state it was typed in, followed by the newly active match
\* when the index is not the sentinel.
C11_CarriesSelected ==
    [][ (lastEvent' = "on_change" /\ Len(info'.stack) = Len(info.stack) + 1) =>
           LET new == Last(info'.stack)
           IN  new.selected = IF new.current_index >= 0
                              THEN Append(Top.selected, Active(new))
                              ELSE Top.selected ]_vars

\* C11 amended: a query change that pushes a node gives it a fresh selected
\* list: the newly active match alone when the index is not the sentinel,
\* and the empty list otherwise; the nodes below, the selected list of the
\* state it was typed in included, are left as they were.
C11_FreshSelected ==
    [][ (lastEvent' = "on_change" /\ Len(info'.stack) = Len(info.stack) + 1) =>
           LET new == Last(info'.stack)
           IN  /\ new.selected = IF new.current_index >= 0
                                 THEN << Active(new) >> ELSE << >>
               /\ Front(info'.stack) = info.stack ]_vars

C11_Witness ==
    /\ lastEvent = "on_change"
    /\ Len(info.stack) = 3
    /\ info.stack[2].selected # << >>
    /\ Top.current_index >= 0
    /\ Top.selected = << Active(Top) >>
    /\ Active(Top) # info.stack[2].selected[1]

\* C12: every query change by the user, one that empties the input line
\* included, pushes exactly one node whose query is the new input text.
C12_EveryChangePushes ==
    [][ lastEvent' = "on_change" =>
           /\ Len(info'.stack) = Len(info.stack) + 1
           /\ Last(info'.stack).search = info'.input_text ]_vars

\* C13: a pop() from a state with a predecessor makes that predecessor
\* current: when the pop and the on_change its replay triggered are over,
\* the stack is the former stack without its top, and the input line shows
\* the query of the new current state.
C13_PopToPredecessor ==
    [][ (lastEvent' = "pop" /\ Len(info.stack) > 1) =>
           /\ info'.stack = Front(info.stack)
           /\ info'.input_text = Last(info'.stack).search ]_vars

C13_Witness ==
    /\ lastEvent = "pop"
    /\ Len(info.stack) = 2
    /\ Top.search # << >>
    /\ info.input_text = Top.search
    /\ info.in_changes = 0
    /\ find_hl = Top.regions

\* the displayable state: the nearest ancestor of current, itself included,
\* that has a selected span or an empty query (the root has an empty query)
Displayable ==
    info.stack[Maximum({ k \in 1 .. Len(info.stack) :
                            info.stack[k].selected # << >> \/ info.stack[k].search = << >> })]

\* C14: while a session is in the slot and has not been finished, after
\* every query change, step and pop the "find" highlights are the matches
\* of the displayable state and the "selected" highlights its selected list.
C14_Projection ==
    (isearch_info /\ ~finished /\ lastEvent \in {"on_change", "next", "pop"}) =>
        /\ find_hl = Displayable.regions
        /\ selected_hl = Displayable.selected

C14_Witness ==
    /\ isearch_info /\ ~finished
    /\ lastEvent = "on_change"
    /\ Len(info.stack) = 3
    /\ Top.search # << >>
    /\ Top.selected = << >>
    /\ info.stack[2].selected # << >>
    /\ find_hl = info.stack[2].regions
    /\ selected_hl = info.stack[2].selected

\* C15: in every node of the stack the selected list holds no span twice.
C15_NoDuplicates ==
    \A k \in 1 .. Len(info.stack) :
        \A i, j \in 1 .. Len(info.stack[k].selected) :
            i # j => info.stack[k].selected[i] # info.stack[k].selected[j]

\* C16: growth folds case.  When the query append_from_cursor starts from
\* has no upper-case letter, the query it leaves has none either: every
\* character it appended, the first included, was lower-cased.
C16_GrowthFolds ==
    [][ (lastEvent' = "append_from_cursor" /\ ~HasUpper(Top.search)) =>
           ~HasUpper(Last(info'.stack).search) ]_vars

Metachars == {"{", "}", "(", ")", "[", "]", ".", "*", "+"}

\* the buffer position growth starts from
GrowthStart == IF Top.selected # << >> THEN end(Last(Top.selected)) ELSE info.point

\* every metacharacter of s follows a backslash, every backslash precedes one
RECURSIVE WellEscaped(_)
WellEscaped(s) ==
    IF s = << >> THEN TRUE
    ELSE IF s[1] = Backslash
         THEN Len(s) >= 2 /\ s[2] \in Metachars /\ WellEscaped(SubSeq(s, 3, Len(s)))
         ELSE s[1] \notin Metachars /\ WellEscaped(Tail(s))

\* s without its backslashes
Plain(s) == SelectSeq(s, LAMBDA c : c # Backslash)

\* C17: escaping in regex growth.  What append_from_cursor added to the
\* query is, case aside, the buffer text from the point growth started at,
\* where in a regex session each of { } ( ) [ ] . * + is preceded by a
\* backslash (and nothing else is), and in a literal session no backslash
\* is added at all.
C17_GrowthEscapes ==
    [][ lastEvent' = "append_from_cursor" =>
           LET old   == Top.search
               new   == Last(info'.stack).search
               added == SubSeq(new, Len(old) + 1, Len(new))
           IN  /\ new = old \o added
               /\ IF info.regex THEN WellEscaped(added)
                                ELSE Backslash \notin Range(added)
               /\ \A i \in 1 .. Len(Plain(added)) :
                      Lower(Plain(added)[i]) = Lower(Buffer[GrowthStart + i]) ]_vars

C17_Witness ==
    /\ lastEvent = "append_from_cursor"
    /\ info.regex
    /\ Top.search = <<"a", "b", Backslash, ".", "a">>
    /\ Top.regions = << Region(1, 5) >>
    /\ info.stack[Len(info.stack) - 1].search = <<"a", "b", Backslash, ".">>

\* C18: case inference.  Every node above the root holds the matches the
\* host finds for its query when asked case-sensitively exactly if the
\* query has an upper-case letter, and literally exactly if the session is
\* not a regex session -- whatever the queries typed before it were.
C18_CaseInference ==
    \A k \in 2 .. Len(info.stack) :
        info.stack[k].regions =
            view_find_all(info.stack[k].search,
                          [ literal    |-> ~info.regex,
                            ignorecase |-> ~HasUpper(info.stack[k].search) ])

C18_Witness ==
    /\ lastEvent = "on_change"
    /\ info.regex
    /\ Len(info.stack) = 3
    /\ info.stack[2].search = <<"A">>
    /\ info.stack[2].regions = << Region(1, 2) >>
    /\ Top.search = <<".">>
    /\ Len(Top.regions) = Len(Buffer)

\* C19: search again.  A step requested while current is the root puts the
\* remembered last search into the input line and leaves a pushed state
\* whose query is that text, when a last search is recorded; when none is,
\* the step changes nothing.
C19_SearchAgain ==
    [][ (lastEvent' = "next" /\ isearch_info /\ ~finished /\ Len(info.stack) = 1) =>
           IF last_search # << >>
           THEN /\ info'.input_text = last_search
                /\ Len(info'.stack) = 2
                /\ Last(info'.stack).search = last_search
           ELSE /\ info' = info
                /\ find_hl' = find_hl /\ selected_hl' = selected_hl
                /\ sel' = sel ]_vars

\* C20: at most one session.  The command invoked while the slot holds a
\* session never makes another one: invoked as it is to open a search it
\* changes nothing, and invoked with next or pop it leaves the session's
\* anchor, kind, panel and root as they are.  The slot
\* is filled only by the command finding it empty, and emptied only while
\* the input panel closes, which is when on_done or on_cancel runs.
C20_OneSession ==
    [][ /\ (isearch_info /\ lastEvent' = "start") =>
              /\ info' = info
              /\ isearch_info'
              /\ UNCHANGED <<sel, mark, find_hl, selected_hl, last_search, finished>>
        /\ (isearch_info /\ lastEvent' \in {"next", "pop"}) =>
              /\ isearch_info'
              /\ info'.point = info.point
              /\ info'.regex = info.regex
              /\ info'.is_active = info.is_active
              /\ info'.panel_open = info.panel_open
              /\ info'.stack[1] = info.stack[1]
              /\ UNCHANGED <<sel, mark, last_search, finished>>
        /\ (~isearch_info /\ isearch_info') => lastEvent' = "start"
        /\ (isearch_info /\ ~isearch_info') =>
              /\ lastEvent' \in {"on_done", "on_cancel", "done", "quit"}
              /\ info.panel_open /\ ~info'.panel_open ]_vars

C20_Witness ==
    /\ lastEvent = "start"
    /\ isearch_info
    /\ Len(info.stack) = 3
    /\ info.input_text # << >>
    /\ find_hl # << >>

\* C21: no stale highlights.  Once finish() has run on the session both
\* highlight sets are empty, and stay so until a new session is made.
C21_NoStaleHighlights ==
    finished => find_hl = << >> /\ selected_hl = << >>

\* the index closestMatch is to give: forward the first match that ends at
\* or after pos, backward the last match that begins at or before pos
Closest(regions, pos, forward) ==
    LET ahead  == { i \in 0 .. Len(regions) - 1 : end(regions[i + 1]) >= pos }
        behind == { i \in 0 .. Len(regions) - 1 : begin(regions[i + 1]) <= pos }
    IN  IF forward
        THEN IF ahead = { } THEN -1 ELSE CHOOSE i \in ahead : \A j \in ahead : i <= j
        ELSE IF behind = { } THEN -1 ELSE Maximum(behind)

\* a query change that pushed a node
TypedOver ==
    /\ lastEvent' = "on_change"
    /\ Len(info'.stack) = Len(info.stack) + 1

\* C22 as stated: the new state's active match is the closest match from
\* the end of the current active match when searching forward, from its
\* begin when searching backward, and from the session's point when current
\* has no active match (taken where the session and the current state agree
\* on the direction, so that "searching forward" has one reading).
C22_AnchorEndForward ==
    [][ (TypedOver /\ Top.forward = info.forward) =>
           LET new == Last(info'.stack)
               pos == IF Top.current_index < 0 THEN info.point
                      ELSE IF Top.forward THEN end(Active(Top)) ELSE begin(Active(Top))
           IN  new.current_index = Closest(new.regions, pos, info.forward) ]_vars

\* C22 amended: the anchor is the begin of the current active match when
\* the current state's direction is forward and its end when it is
\* backward; it is the session's point when current has no active match.
\* The closest match is then taken in the session's direction.
C22_AnchorBeginForward ==
    [][ TypedOver =>
           LET new == Last(info'.stack)
               pos == IF Top.current_index < 0 THEN info.point
                      ELSE IF Top.forward THEN begin(Active(Top)) ELSE end(Active(Top))
           IN  new.current_index = Closest(new.regions, pos, info.forward) ]_vars

C22_Witness ==
    /\ lastEvent = "on_change"
    /\ Len(info.stack) = 3
    /\ info.forward /\ info.stack[2].forward
    /\ info.stack[2].search = <<"a", "b">>
    /\ info.stack[2].current_index = 0
    /\ Top.search = <<"a">>
    /\ Top.current_index = 0

\* a step that confirmed a wrap: it pushed a node over a state whose pending
\* flag was set, and cleared the flag
Confirming ==
    /\ lastEvent' = "next"
    /\ Len(info'.stack) = Len(info.stack) + 1
    /\ Top.try_wrapped
    /\ ~info'.stack[Len(info.stack)].try_wrapped

\* C23: a step confirms a wrap only right after the step that armed it on
\* the same state; once anything else came between (a query change and a
\* pop back, a step and a pop back) a boundary step only arms again.
C23_ConfirmRightAfterArming ==
    [][ Confirming => armed # "none" ]_vars

\* C24: a step in the direction opposite to the one that armed the wrap
\* does not confirm it: right after an arming step, a confirming step goes
\* in the direction of the arming step.
C24_ReversalDoesNotConfirm ==
    [][ (Confirming /\ armed # "none") =>
           Last(info'.stack).forward = (armed = "forward") ]_vars

\* the index of a node is the sentinel or the position of one of its matches
IndexInRange(item) ==
    \/ item.current_index = -1
    \/ 0 <= item.current_index /\ item.current_index < Len(item.regions)

\* C25: in every node of the stack the active index is the sentinel -1 or
\* lies in 0 .. len(matches) - 1; a step that pushes a node away from the
\* boundary gives it the index of the state it stepped from plus 1 (forward)
\* or minus 1 (backward), with the same query, match list and wrapped flag.
C25_IndexSteps ==
    /\ [](isearch_info => \A k \in 1 .. Len(info.stack) : IndexInRange(info.stack[k]))
    /\ [][ (lastEvent' = "next" /\ isearch_info /\ Len(info.stack) > 1
             /\ Len(info'.stack) = Len(info.stack) + 1
             /\ ~AtBoundary(Top, Last(info'.stack).forward)) =>
             LET new == Last(info'.stack)
             IN  /\ new.current_index =
                       Top.current_index + (IF new.forward THEN 1 ELSE -1)
                 /\ new.search = Top.search
                 /\ new.regions = Top.regions
                 /\ new.wrapped = Top.wrapped ]_vars

\* a backward step made under a forward search, from a later match of three
\* to the one before it
C25_Witness ==
    /\ lastEvent = "next"
    /\ Len(info.stack) = 3
    /\ info.forward
    /\ ~Top.forward
    /\ Top.current_index = info.stack[2].current_index - 1
    /\ Top.current_index >= 0
    /\ Top.regions = info.stack[2].regions
    /\ Len(Top.regions) = 3

\* everything of a node but its pending-wrap flag
Frozen(item) == [item EXCEPT !.try_wrapped = FALSE]

\* C26: stack nodes are immutable apart from the pending-wrap flag.  Whatever
\* the operation (query change, step, pop, growth, quit), a node that is on
\* the stack before and after it has the same query, match list, selected
\* list, index, direction and wrapped flag, and the same nodes under it.
C26_NodesImmutable ==
    [][ \A k \in 1 .. Len(info.stack) :
           k <= Len(info'.stack) => Frozen(info'.stack[k]) = Frozen(info.stack[k]) ]_vars

\* growth pushed a node with two selected matches over a node that still has
\* its one
C26_Witness ==
    /\ lastEvent = "append_from_cursor"
    /\ Len(info.stack) >= 3
    /\ Len(info.stack[2].selected) = 1
    /\ Top.selected # << >>
    /\ Top.selected # info.stack[2].selected

\* C27: a step on a state with no matches is a no-op.  It pushes no node,
\* leaves every node (the pending-wrap flag of current included), the
\* highlights, the status text and the selection as they were, so repeating
\* it changes nothing either.  (The root, which has no query, is searched
\* again from the last-search memory instead of being stepped.)
C27_StepOnNoMatches ==
    [][ (lastEvent' = "next" /\ isearch_info /\ Len(info.stack) > 1
           /\ Top.regions = << >>) =>
           /\ info' = info
           /\ find_hl' = find_hl /\ selected_hl' = selected_hl
           /\ sel' = sel /\ last_search' = last_search
           /\ status' = status
           /\ isearch_info' /\ finished' = finished ]_vars

\* a step made on a state whose query has no match (the query is not the
\* remembered one, so the state was typed, not pushed by this command)
C27_Witness ==
    /\ lastEvent = "next"
    /\ isearch_info
    /\ ~finished
    /\ Len(info.stack) = 2
    /\ Top.search = <<"b", "b">>
    /\ last_search # <<"b", "b">>
    /\ Top.regions = << >>
    /\ ~Top.try_wrapped

\* C28: pop on the root state is a no-op.  The stack, the session direction,
\* the text of the input line, the echo-suppression counter, the highlights,
\* the status text and the selection are unchanged and the session stays in
\* its slot.
C28_PopOnRoot ==
    [][ (lastEvent' = "pop" /\ isearch_info /\ Len(info.stack) = 1) =>
           /\ info' = info
           /\ find_hl' = find_hl /\ selected_hl' = selected_hl
           /\ sel' = sel /\ last_search' = last_search
           /\ status' = status
           /\ isearch_info' /\ finished' = finished ]_vars

\* a pop made on the root while the input line holds text: a pop that took a
\* node off would have replaced the text by the root's empty query
C28_Witness ==
    /\ lastEvent = "pop"
    /\ isearch_info
    /\ ~finished
    /\ Len(info.stack) = 1
    /\ info.input_text # << >>

\* the transitions in which finish() ran: the first finish of a session, a
\* deactivation, a quit that closes
Finishes ==
    \/ finished' /\ ~finished
    \/ lastEvent' = "deactivate"
    \/ lastEvent' = "quit" /\ isearch_info
          /\ (Top.regions # << >> \/ Len(back_up(info.stack)) = 1)

\* C29: last-search memory.  Every finish leaves in the slot the query of the
\* state that is current when it runs if that query is non-empty, and what
\* the slot held if it is empty; nothing but a finish changes the slot.
C29_LastSearch ==
    [][ /\ Finishes =>
              last_search' = IF Last(info'.stack).search # << >>
                             THEN Last(info'.stack).search ELSE last_search
        /\ last_search' # last_search => Finishes ]_vars

\* a session finished on its root while the slot keeps the query of the
\* session before
C29_Witness ==
    /\ finished
    /\ lastEvent \in {"on_done", "on_cancel", "deactivate", "done", "quit"}
    /\ Len(info.stack) = 1
    /\ info.point # 0
    /\ last_search = <<"a">>

\* the number of word characters of the buffer in a row from position point
RECURSIVE WordRun(_)
WordRun(point) ==
    IF point < Len(Buffer) /\ Buffer[point + 1] \notin {" ", "\t", "\r", "\n", "."}
    THEN 1 + WordRun(point + 1)
    ELSE 0

\* growth has something to start from: the search is not failing and the
\* start point is inside the buffer
CanGrow ==
    /\ ~(Top.search # << >> /\ Top.selected = << >>)
    /\ GrowthStart < Len(Buffer)

\* C30: append_from_cursor, when its preconditions hold, absorbs the
\* character at the start point and the word characters in a row after it,
\* and pushes one state per absorbed character, each with a query one
\* character longer than the state under it; when the search is failing or
\* the start point is at the end of the buffer it changes nothing.
C30_GrowthPushes ==
    [][ (lastEvent' = "append_from_cursor") =>
           IF CanGrow
           THEN LET n == 1 + WordRun(GrowthStart + 1)
                IN  /\ Len(info'.stack) = Len(info.stack) + n
                    /\ \A k \in Len(info.stack) + 1 .. Len(info'.stack) :
                          Len(Plain(info'.stack[k].search)) =
                             Len(Plain(info'.stack[k - 1].search)) + 1
           ELSE /\ info' = info
                /\ find_hl' = find_hl /\ selected_hl' = selected_hl
                /\ sel' = sel /\ last_search' = last_search ]_vars

\* C32: in every node of the stack the selected list is non-empty exactly
\* when the index is not the sentinel, and then its last element is the
\* active match, regions[current_index].
C32_SelectedIffActive ==
    isearch_info =>
        \A k \in 1 .. Len(info.stack) :
            LET item == info.stack[k]
            IN  /\ (item.selected # << >>) <=> (item.current_index # -1)
                /\ item.selected # << >> => Last(item.selected) = Active(item)

\* a typed state with matches none of which lies in the search direction
\* (sentinel, nothing selected) under a stepped state with two selected
C32_Witness ==
    /\ isearch_info
    /\ Len(info.stack) = 3
    /\ info.stack[2].regions # << >>
    /\ info.stack[2].current_index = -1
    /\ info.stack[2].selected = << >>
    /\ Top.current_index >= 0
    /\ Top.selected = << Active(Top) >>

\* C33: between events the direction of the session is the direction of the
\* current state.
C33_SessionDirection ==
    isearch_info => info.forward = Top.forward

\* C34: between events the echo-suppression counter is 0.
C34_CounterIdle ==
    isearch_info => info.in_changes = 0

\* the pieces of the status text
Carries(piece) == \E i \in 1 .. Len(status) : status[i] = piece

\* C31 as stated: once a query is typed, the status text starts with
\* "Failing " exactly when the query has no matches, and carries "Wrapped "
\* exactly when the current state is wrapped.
C31_FailingNoMatches ==
    (isearch_info /\ status # << >> /\ Top.search # << >>) =>
        /\ (status[1] = "Failing ") <=> (Top.regions = << >>)
        /\ Carries("Wrapped ") <=> Top.wrapped

\* C31: the status text starts with "Failing " exactly when the displayable
\* state is not the current one, that is when the current state has a query
\* and no selected span (its matches may be none, or none in the search
\* direction); it carries "Wrapped " exactly when the current state is
\* wrapped.
C31_FailingNotDisplayable ==
    (isearch_info /\ status # << >>) =>
        /\ (status[1] = "Failing ") <=> (Top.search # << >> /\ Top.selected = << >>)
        /\ (status[1] = "Failing ") <=> (Displayable # Top)
        /\ Carries("Wrapped ") <=> Top.wrapped

\* a query with matches, none of them in the search direction: failing, with
\* the count of the matches on the other side
C31_Witness ==
    /\ isearch_info
    /\ lastEvent = "on_change"
    /\ Top.regions # << >>
    /\ Top.selected = << >>
    /\ status[1] = "Failing "
    /\ Carries(" matches ")

====
